---- MODULE Spec2Model ----
(***************************************************************************)
(* State model of rustLMS (src/src/main.rs): the Library struct with its   *)
(* catalog (items) and its members, loaded once by initialize_lib and then *)
(* mutated by book_issue and book_return.                                  *)
(*                                                                         *)
(* HashMap<K, V> values are functions whose DOMAIN is the key set.         *)
(* A text that the program parses or converts (member_id_text, format) is  *)
(* a sequence of one-character strings.  A due date is a number of months  *)
(* since DateTime::default() (the Unix epoch).                             *)
(* A u32 is the integer it holds up to 2147483647; a larger one is held as *)
(* that 32-bit pattern read with a sign (4294967295 is -1), the integers   *)
(* of the checker being 32 bits wide.  Texts are over U+0000..U+00FF.      *)
(* The LiItem fields author, year, edition, desc and ratings are carried   *)
(* through the program untouched and are left out of the records.          *)
(***************************************************************************)
EXTENDS Integers, Sequences, FiniteSets, TLC

\* ---------------------------------------------------------------- bounds
MaxRows == 2
MaxCopies == 2
MaxMembers == 2
\* the largest error number a system call is followed for (Linux returns the
\* numbers 1..4095)
MaxErrno == 4095
\* the month, counted from January 1970, in which the session runs (a session
\* is shorter than a month, so every issue of the session happens in it)
SessionMonth == 682

\* ---------------------------------------------------------------- inputs
\* title_id arguments of book_issue / book_return (no row carries id 3)
ItemArgs == {1, 2, 3}
\* member_id arguments of book_return (at most MaxMembers members are created)
MemberArgs == 0..(MaxMembers + 1)
\* the (id, title, format) triples a CSV row can carry; a catalog need not
\* hold both ids, and two rows can carry the same id
Editions ==
  { [id |-> 1, title |-> "Dune", format |-> <<"b","o","o","k">>],
    [id |-> 1, title |-> "Dune", format |-> <<"M","o","v","i","e">>],
    [id |-> 2, title |-> "Emma", format |-> <<"B","O","O","K">>],
    [id |-> 2, title |-> "Atlas", format |-> <<"m","a","p">>] }
\* member_id_text arguments of book_issue: numbers, with and without a sign,
\* a name, the empty text and a number that is one too large for a u32
Texts ==
  { <<"1">>, <<"+","2">>, <<"0">>, <<"A","d","a">>, << >>,
    <<"4","2","9","4","9","6","7","2","9","6">> }

\* ---------------------------------------------------------------- HashMap
EmptyMap == << >>

MapInsert(m, k, v) == [x \in (DOMAIN m) \cup {k} |-> IF x = k THEN v ELSE m[x]]

MapRemove(m, k) == [x \in (DOMAIN m) \ {k} |-> m[x]]

\* ---------------------------------------------------------------- Result
\* Result<T, String>: val holds the payload of Ok (nothing for Ok(()))
Ok(v) == [ok |-> TRUE, err |-> "", val |-> <<v>>]

Err(e) == [ok |-> FALSE, err |-> e, val |-> << >>]

OkUnit == [ok |-> TRUE, err |-> "", val |-> << >>]

ErrNoCopies == "No available copies left!"
ErrInvalidItem == "Invalid Item ID!"
ErrInvalidMember == "Invalid Member ID!"
ErrBookNotFound == "Book not found in library items"
ErrNotCheckedOut == "This book was not checked out by this member"
ErrMemberNotFound == "Member not found"
ErrNoItemsLoaded == "No items loaded from CSV"
\* the panic of println! and of eprintln! when the stream cannot be written;
\* the message goes on with the io::Error of the write
PanicStdout == "failed printing to stdout"
PanicStderr == "failed printing to stderr"
\* strerror of the C library (glibc) for the error numbers 1..133 that
\* Linux defines, in order
ErrnoTexts ==
  << "Operation not permitted", "No such file or directory",
     "No such process", "Interrupted system call", "Input/output error",
     "No such device or address", "Argument list too long",
     "Exec format error", "Bad file descriptor", "No child processes",
     "Resource temporarily unavailable", "Cannot allocate memory",
     "Permission denied", "Bad address", "Block device required",
     "Device or resource busy", "File exists", "Invalid cross-device link",
     "No such device", "Not a directory", "Is a directory",
     "Invalid argument", "Too many open files in system",
     "Too many open files", "Inappropriate ioctl for device",
     "Text file busy", "File too large", "No space left on device",
     "Illegal seek", "Read-only file system", "Too many links", "Broken pipe",
     "Numerical argument out of domain", "Numerical result out of range",
     "Resource deadlock avoided", "File name too long", "No locks available",
     "Function not implemented", "Directory not empty",
     "Too many levels of symbolic links", "Unknown error 41",
     "No message of desired type", "Identifier removed",
     "Channel number out of range", "Level 2 not synchronized",
     "Level 3 halted", "Level 3 reset", "Link number out of range",
     "Protocol driver not attached", "No CSI structure available",
     "Level 2 halted", "Invalid exchange", "Invalid request descriptor",
     "Exchange full", "No anode", "Invalid request code", "Invalid slot",
     "Unknown error 58", "Bad font file format", "Device not a stream",
     "No data available", "Timer expired", "Out of streams resources",
     "Machine is not on the network", "Package not installed",
     "Object is remote", "Link has been severed", "Advertise error",
     "Srmount error", "Communication error on send", "Protocol error",
     "Multihop attempted", "RFS specific error", "Bad message",
     "Value too large for defined data type", "Name not unique on network",
     "File descriptor in bad state", "Remote address changed",
     "Can not access a needed shared library",
     "Accessing a corrupted shared library",
     ".lib section in a.out corrupted",
     "Attempting to link in too many shared libraries",
     "Cannot exec a shared library directly",
     "Invalid or incomplete multibyte or wide character",
     "Interrupted system call should be restarted", "Streams pipe error",
     "Too many users", "Socket operation on non-socket",
     "Destination address required", "Message too long",
     "Protocol wrong type for socket", "Protocol not available",
     "Protocol not supported", "Socket type not supported",
     "Operation not supported", "Protocol family not supported",
     "Address family not supported by protocol", "Address already in use",
     "Cannot assign requested address", "Network is down",
     "Network is unreachable", "Network dropped connection on reset",
     "Software caused connection abort", "Connection reset by peer",
     "No buffer space available", "Transport endpoint is already connected",
     "Transport endpoint is not connected",
     "Cannot send after transport endpoint shutdown",
     "Too many references: cannot splice", "Connection timed out",
     "Connection refused", "Host is down", "No route to host",
     "Operation already in progress", "Operation now in progress",
     "Stale file handle", "Structure needs cleaning",
     "Not a XENIX named type file", "No XENIX semaphores available",
     "Is a named type file", "Remote I/O error", "Disk quota exceeded",
     "No medium found", "Wrong medium type", "Operation canceled",
     "Required key not available", "Key has expired", "Key has been revoked",
     "Key was rejected by service", "Owner died", "State not recoverable",
     "Operation not possible due to RF-kill",
     "Memory page has hardware error" >>

\* strerror: the text of the table, and for a number past it the number
\* itself
strerror(code) ==
  IF code \in 1..Len(ErrnoTexts) THEN ErrnoTexts[code]
  ELSE "Unknown error " \o ToString(code)

\* Display of the io::Error made from an OS error number: the text of
\* strerror, then the number
os_error(code) == strerror(code) \o " (os error " \o ToString(code) \o ")"

\* the error numbers open can fail with: whichever the kernel and the file
\* system behind the path give, but for EINTR (4), on which File::open
\* calls open again
OpenErrnos == (1..MaxErrno) \ {4}

\* the texts of the io::Error that File::open gives for a path it cannot
\* open; initialize_lib hands the error on as it is
OpenErrors == {os_error(code) : code \in OpenErrnos}

\* ---------------------------------------------------------------- text
Digits == {"0", "1", "2", "3", "4", "5", "6", "7", "8", "9"}

DigitVal(c) ==
  CASE c = "0" -> 0 [] c = "1" -> 1 [] c = "2" -> 2 [] c = "3" -> 3
    [] c = "4" -> 4 [] c = "5" -> 5 [] c = "6" -> 6 [] c = "7" -> 7
    [] c = "8" -> 8 [] c = "9" -> 9

ErrEmpty == "cannot parse integer from empty string"
ErrInvalidDigit == "invalid digit found in string"
ErrPosOverflow == "number too large to fit in target type"

\* one step of the digit loop of parse::<u32> is acc * 10 + x with
\* checked_mul and checked_add: acc * 10 overflows above 429496729, the sum
\* above 4294967295
digit_overflows(acc, x) ==
  IF 0 <= acc /\ acc < 429496729 THEN FALSE
  ELSE acc # 429496729 \/ x > 5

\* acc * 10 + x where it does not overflow; a result above 2147483647 is
\* held as acc * 10 + x - 2^32
push_digit(acc, x) ==
  IF acc < 214748364 \/ (acc = 214748364 /\ x <= 7) THEN acc * 10 + x
  ELSE (acc - 429496728) * 10 + (x - 16)

\* the digit loop from character k on, left to right: it stops at the first
\* character that is no digit or that makes the number too large
RECURSIVE parse_digits(_, _, _)
parse_digits(acc, s, k) ==
  IF k > Len(s) THEN Ok(acc)
  ELSE IF s[k] \notin Digits THEN Err(ErrInvalidDigit)
  ELSE IF digit_overflows(acc, DigitVal(s[k])) THEN Err(ErrPosOverflow)
  ELSE parse_digits(push_digit(acc, DigitVal(s[k])), s, k + 1)

\* str::parse::<u32>(): an optional leading '+', then one or more decimal
\* digits that make a number up to 4294967295; anything else (empty text, a
\* sign alone, '-', letters, blanks, a larger number) is an error.
ParseU32(text) ==
  IF text = << >> THEN Err(ErrEmpty)
  ELSE LET first == IF text[1] = "+" THEN 2 ELSE 1
       IN IF first > Len(text) THEN Err(ErrInvalidDigit)
          ELSE parse_digits(0, text, first)

\* the characters of U+0000..U+00FF that have a lowercase form: the 26
\* capitals of ASCII and the 30 of Latin-1 (U+00C0..U+00DE without the sign
\* U+00D7), and their lowercase forms in the same order
Capitals ==
  << "A", "B", "C", "D", "E", "F", "G", "H", "I", "J", "K", "L", "M", "N",
     "O", "P", "Q", "R", "S", "T", "U", "V", "W", "X", "Y", "Z", "À", "Á",
     "Â", "Ã", "Ä", "Å", "Æ", "Ç", "È", "É", "Ê", "Ë", "Ì", "Í", "Î", "Ï",
     "Ð", "Ñ", "Ò", "Ó", "Ô", "Õ", "Ö", "Ø", "Ù", "Ú", "Û", "Ü", "Ý", "Þ" >>

Smalls ==
  << "a", "b", "c", "d", "e", "f", "g", "h", "i", "j", "k", "l", "m", "n",
     "o", "p", "q", "r", "s", "t", "u", "v", "w", "x", "y", "z", "à", "á",
     "â", "ã", "ä", "å", "æ", "ç", "è", "é", "ê", "ë", "ì", "í", "î", "ï",
     "ð", "ñ", "ò", "ó", "ô", "õ", "ö", "ø", "ù", "ú", "û", "ü", "ý", "þ" >>

Lowered ==
  [ c \in {Capitals[k] : k \in 1..Len(Capitals)} |->
      Smalls[CHOOSE k \in 1..Len(Capitals) : Capitals[k] = c] ]

\* char::to_lowercase on U+0000..U+00FF: every other character of the range
\* is its own lowercase form
LowerChar(c) == IF c \in DOMAIN Lowered THEN Lowered[c] ELSE c

\* str::to_lowercase: on this range each character is lowered by itself and
\* the length stays
to_lowercase(s) == [k \in 1..Len(s) |-> LowerChar(s[k])]

\* ---------------------------------------------------------------- LiItem
\* LiItemInstance::renew: due_date is advanced by renew_factor months
renew(inst) == [inst EXCEPT !.due_date = @ + 1 * inst.renew_factor]

renew_factor_of(format) ==
  LET f == to_lowercase(format)
  IN IF f = <<"b","o","o","k">> THEN 1
     ELSE IF f = <<"m","o","v","i","e">> THEN 2
     ELSE 0

\* u32 wrapping arithmetic by one, on the 32-bit pattern: what `-= 1` and
\* `+= 1` leave in a build without overflow checks (0 - 1 is 4294967295, held
\* as -1; 4294967295 + 1 is 0)
wrapping_sub_one(n) == IF n = -2147483647 - 1 THEN 2147483647 ELSE n - 1

wrapping_add_one(n) == IF n = 2147483647 THEN -2147483647 - 1 ELSE n + 1

PanicSubtract == "attempt to subtract with overflow"
PanicAdd == "attempt to add with overflow"

\* create_instance without `self.avail_copies -= 1`
create_instance_no_decrement(item, checks) ==
  [ overflow |-> FALSE,
    item |-> item,
    inst |-> renew([ title |-> item.title,
                     id |-> item.id,
                     renew_factor |-> renew_factor_of(item.format),
                     due_date |-> 0,
                     notice |-> FALSE ]) ]

\* create_instance with the snapshot's title taken from the wrong item
create_instance_wrong_title(item, checks) ==
  [ overflow |-> checks /\ item.avail_copies = 0,
    item |-> IF checks /\ item.avail_copies = 0 THEN item
             ELSE [item EXCEPT !.avail_copies = wrapping_sub_one(@)],
    inst |-> renew([ title |-> IF item.title = "Dune" THEN "Emma" ELSE "Dune",
                     id |-> item.id,
                     renew_factor |-> renew_factor_of(item.format),
                     due_date |-> 0,
                     notice |-> FALSE ]) ]

\* create_instance with the snapshot's id taken from the wrong field
create_instance_wrong_id(item, checks) ==
  [ overflow |-> checks /\ item.avail_copies = 0,
    item |-> IF checks /\ item.avail_copies = 0 THEN item
             ELSE [item EXCEPT !.avail_copies = wrapping_sub_one(@)],
    inst |-> renew([ title |-> item.title,
                     id |-> item.copies,
                     renew_factor |-> renew_factor_of(item.format),
                     due_date |-> 0,
                     notice |-> FALSE ]) ]

\* create_instance that takes two copies off the count
create_instance_double_decrement(item, checks) ==
  [ overflow |-> checks /\ item.avail_copies \in {0, 1},
    item |-> IF checks /\ item.avail_copies \in {0, 1} THEN item
             ELSE [item EXCEPT !.avail_copies = wrapping_sub_one(wrapping_sub_one(@))],
    inst |-> renew([ title |-> item.title,
                     id |-> item.id,
                     renew_factor |-> renew_factor_of(item.format),
                     due_date |-> 0,
                     notice |-> FALSE ]) ]

\* LiItem::create_instance: the u32 decrement, then the snapshot.  checks
\* tells whether the program was built with overflow checks (cargo's dev
\* profile) or without (release).  The decrement of a zero count panics
\* with them, before anything is written (overflow |-> TRUE: the item is as
\* it was and no record is returned), and wraps without them.
create_instance(item, checks) ==
  [ overflow |-> checks /\ item.avail_copies = 0,
    item |-> IF checks /\ item.avail_copies = 0 THEN item
             ELSE [item EXCEPT !.avail_copies = wrapping_sub_one(@)],
    inst |-> renew([ title |-> item.title,
                     id |-> item.id,
                     renew_factor |-> renew_factor_of(item.format),
                     due_date |-> 0,
                     notice |-> FALSE ]) ]

\* ---------------------------------------------------------------- Library
\* one row of the CSV source, as serde sees it: the counts are the numbers
\* written in the file (a negative one does not deserialize into a u32);
\* ShortRow is a row with missing columns
ShortRow ==
  [ short |-> TRUE, title |-> "", format |-> << >>, id |-> 0,
    copies |-> 0, avail_copies |-> 0 ]

Rows ==
  { [ short |-> FALSE, title |-> e.title, format |-> e.format, id |-> e.id,
      copies |-> c, avail_copies |-> a ] :
      e \in Editions, c \in 0..MaxCopies, a \in 0..MaxCopies }
  \cup { [ short |-> FALSE, title |-> e.title, format |-> e.format, id |-> e.id,
           copies |-> n[1], avail_copies |-> n[2] ] :
           e \in Editions, n \in {<<-1, 0>>, <<0, -1>>} }
  \cup {ShortRow}

\* csv deserialize::<LiItem>() of one row
deserialize(row) ==
  IF row.short THEN Err("missing field")
  ELSE IF row.copies < 0 \/ row.avail_copies < 0 THEN Err(ErrInvalidDigit)
  ELSE Ok([ title |-> row.title, format |-> row.format, id |-> row.id,
            copies |-> row.copies, avail_copies |-> row.avail_copies ])

\* println! and eprintln! panic when the stream cannot be written.  fails
\* is the print call of the run that meets such a stream, counted from 1
\* (0 when none does); printed is the number of print calls made so far.
print_fails(printed, fails) == printed + 1 = fails

\* the loop of initialize_lib over the rows: the store and the count.  A row
\* that fails to deserialize is reported by an eprintln! and a println!; the
\* loop ends there (panic |-> TRUE) when one of them panics, the rows
\* inserted so far in the store.
RECURSIVE load_rows(_, _, _, _, _)
load_rows(its, count, rows, printed, fails) ==
  IF rows = << >>
  THEN [items |-> its, count |-> count, printed |-> printed, panic |-> ""]
  ELSE LET r == deserialize(Head(rows))
       IN IF r.ok
          THEN load_rows(MapInsert(its, r.val[1].id, r.val[1]), count + 1,
                         Tail(rows), printed, fails)
          ELSE IF print_fails(printed, fails)
          THEN [ items |-> its, count |-> count, printed |-> printed,
                 panic |-> PanicStderr ]
          ELSE IF print_fails(printed + 1, fails)
          THEN [ items |-> its, count |-> count, printed |-> printed + 1,
                 panic |-> PanicStdout ]
          ELSE load_rows(its, count, Tail(rows), printed + 2, fails)

\* Library::initialize_lib; file is what File::open and the csv reader give:
\* whether the file opens, the error if it does not, and the rows read from
\* it if it does.  The call returns (result holds what it returns), or a
\* print of it panics (result holds nothing, panic the message, and the store
\* is as the rows read so far left it).
initialize_lib(its, file, fails) ==
  LET stop(i, n, msg) ==
        [items |-> i, result |-> << >>, panic |-> msg, printed |-> n]
      return(i, n, res) ==
        [items |-> i, result |-> <<res>>, panic |-> "", printed |-> n]
  IN IF ~file.opens
     THEN IF print_fails(0, fails) THEN stop(its, 0, PanicStderr)
          ELSE IF print_fails(1, fails) THEN stop(its, 1, PanicStdout)
          ELSE return(its, 2, Err(file.error))
     ELSE LET l == load_rows(its, 0, file.rows, 0, fails)
          IN IF l.panic # "" THEN stop(l.items, l.printed, l.panic)
             ELSE IF print_fails(l.printed, fails)
             THEN stop(l.items, l.printed, PanicStdout)
             ELSE return(l.items, l.printed + 1,
                         IF l.count = 0 THEN Err(ErrNoItemsLoaded) ELSE OkUnit)

\* connect_activate, the block that loads the catalog: initialize_lib on
\* output.csv, then the print of its outcome; cwd tells whether
\* std::env::current_dir() gives a path.  The error of the load is only
\* printed; a print that panics aborts the process (panic holds the message).
load_library(its, file, cwd, fails) ==
  LET r == initialize_lib(its, file, fails)
      stop(n, msg) == [r EXCEPT !.panic = msg, !.printed = n]
      done(n) == [r EXCEPT !.printed = n]
  IN IF r.panic # "" THEN r
     ELSE IF r.result[1].ok
     THEN IF print_fails(r.printed, fails) THEN stop(r.printed, PanicStdout)
          ELSE done(r.printed + 1)
     ELSE IF print_fails(r.printed, fails) THEN stop(r.printed, PanicStderr)
          ELSE IF ~cwd THEN done(r.printed + 1)
          ELSE IF print_fails(r.printed + 1, fails)
          THEN stop(r.printed + 1, PanicStdout)
          ELSE done(r.printed + 2)

\* book_issue without the availability test
has_copies_unchecked(item) == TRUE

\* the availability test written `>= 0`
has_copies_nonneg(item) == item.avail_copies >= 0

\* the test `item.avail_copies > 0` of both branches of book_issue: a u32 is
\* above 0 when it is not 0
has_copies(item) == item.avail_copies # 0

\* the id given to a member that book_issue creates
new_member_id(mems) == Cardinality(DOMAIN mems) + 1

\* book_issue with the new member registered before the item is looked up
book_issue_registers_first(its, mems, title_id, member_id_text, checks) ==
  LET p == ParseU32(member_id_text)
      same(e) == [items |-> its, members |-> mems, result |-> Err(e), panic |-> FALSE]
      aborted == [ items |-> its, members |-> mems, result |-> Err(PanicSubtract),
                   panic |-> TRUE ]
  IN IF p.ok
     THEN LET member_id == p.val[1]
          IN IF member_id \in DOMAIN mems
             THEN IF title_id \in DOMAIN its
                  THEN IF its[title_id].avail_copies > 0
                       THEN LET ci == create_instance(its[title_id], checks)
                            IN IF ci.overflow THEN aborted
                               ELSE [ items |-> [its EXCEPT ![title_id] = ci.item],
                                      members |-> [mems EXCEPT ![member_id].items =
                                                     MapInsert(@, title_id, ci.inst)],
                                      result |-> OkUnit,
                                      panic |-> FALSE ]
                       ELSE same(ErrNoCopies)
                  ELSE same(ErrInvalidItem)
             ELSE same(ErrInvalidMember)
     ELSE LET member_id == Cardinality(DOMAIN mems) + 1
              empty == [id |-> member_id, items |-> EmptyMap]
              mems1 == MapInsert(mems, member_id, empty)
          IN IF title_id \in DOMAIN its
             THEN IF its[title_id].avail_copies > 0
                  THEN LET ci == create_instance(its[title_id], checks)
                       IN IF ci.overflow THEN aborted
                          ELSE [ items |-> [its EXCEPT ![title_id] = ci.item],
                                 members |-> [mems1 EXCEPT ![member_id].items =
                                                MapInsert(@, title_id, ci.inst)],
                                 result |-> OkUnit,
                                 panic |-> FALSE ]
                  ELSE [ items |-> its, members |-> mems1,
                         result |-> Err(ErrNoCopies), panic |-> FALSE ]
             ELSE [ items |-> its, members |-> mems1,
                    result |-> Err(ErrInvalidItem), panic |-> FALSE ]

\* book_issue that registers a member for a number that names none
book_issue_registers_unknown_id(its, mems, title_id, member_id_text, checks) ==
  LET p == ParseU32(member_id_text)
      same(e) == [items |-> its, members |-> mems, result |-> Err(e), panic |-> FALSE]
      aborted == [ items |-> its, members |-> mems, result |-> Err(PanicSubtract),
                   panic |-> TRUE ]
  IN IF p.ok /\ p.val[1] \in DOMAIN mems
     THEN LET member_id == p.val[1]
          IN IF title_id \in DOMAIN its
             THEN IF has_copies(its[title_id])
                  THEN LET ci == create_instance(its[title_id], checks)
                       IN IF ci.overflow THEN aborted
                          ELSE [ items |-> [its EXCEPT ![title_id] = ci.item],
                                 members |-> [mems EXCEPT ![member_id].items =
                                                MapInsert(@, title_id, ci.inst)],
                                 result |-> OkUnit,
                                 panic |-> FALSE ]
                  ELSE same(ErrNoCopies)
             ELSE same(ErrInvalidItem)
     ELSE LET member_id == new_member_id(mems)
          IN IF title_id \in DOMAIN its
             THEN IF has_copies(its[title_id])
                  THEN LET ci == create_instance(its[title_id], checks)
                           member == [ id |-> member_id,
                                       items |-> MapInsert(EmptyMap, title_id, ci.inst) ]
                       IN IF ci.overflow THEN aborted
                          ELSE [ items |-> [its EXCEPT ![title_id] = ci.item],
                                 members |-> MapInsert(mems, member_id, member),
                                 result |-> OkUnit,
                                 panic |-> FALSE ]
                  ELSE same(ErrNoCopies)
             ELSE same(ErrInvalidItem)

\* book_issue that refuses an item the member already holds
book_issue_rejects_reissue(its, mems, title_id, member_id_text, checks) ==
  LET p == ParseU32(member_id_text)
      same(e) == [items |-> its, members |-> mems, result |-> Err(e), panic |-> FALSE]
      aborted == [ items |-> its, members |-> mems, result |-> Err(PanicSubtract),
                   panic |-> TRUE ]
  IN IF p.ok
     THEN LET member_id == p.val[1]
          IN IF member_id \in DOMAIN mems
             THEN IF title_id \in DOMAIN its
                  THEN IF has_copies(its[title_id])
                          /\ title_id \notin DOMAIN mems[member_id].items
                       THEN LET ci == create_instance(its[title_id], checks)
                            IN IF ci.overflow THEN aborted
                               ELSE [ items |-> [its EXCEPT ![title_id] = ci.item],
                                      members |-> [mems EXCEPT ![member_id].items =
                                                     MapInsert(@, title_id, ci.inst)],
                                      result |-> OkUnit,
                                      panic |-> FALSE ]
                       ELSE same(ErrNoCopies)
                  ELSE same(ErrInvalidItem)
             ELSE same(ErrInvalidMember)
     ELSE LET member_id == new_member_id(mems)
          IN IF title_id \in DOMAIN its
             THEN IF has_copies(its[title_id])
                  THEN LET ci == create_instance(its[title_id], checks)
                           member == [ id |-> member_id,
                                       items |-> MapInsert(EmptyMap, title_id, ci.inst) ]
                       IN IF ci.overflow THEN aborted
                          ELSE [ items |-> [its EXCEPT ![title_id] = ci.item],
                                 members |-> MapInsert(mems, member_id, member),
                                 result |-> OkUnit,
                                 panic |-> FALSE ]
                  ELSE same(ErrNoCopies)
             ELSE same(ErrInvalidItem)

\* Library::book_issue
book_issue(its, mems, title_id, member_id_text, checks) ==
  LET p == ParseU32(member_id_text)
      same(e) == [items |-> its, members |-> mems, result |-> Err(e), panic |-> FALSE]
      aborted == [ items |-> its, members |-> mems, result |-> Err(PanicSubtract),
                   panic |-> TRUE ]
  IN IF p.ok
     THEN LET member_id == p.val[1]
          IN IF member_id \in DOMAIN mems
             THEN IF title_id \in DOMAIN its
                  THEN IF has_copies(its[title_id])
                       THEN LET ci == create_instance(its[title_id], checks)
                            IN IF ci.overflow THEN aborted
                               ELSE [ items |-> [its EXCEPT ![title_id] = ci.item],
                                      members |-> [mems EXCEPT ![member_id].items =
                                                     MapInsert(@, title_id, ci.inst)],
                                      result |-> OkUnit,
                                      panic |-> FALSE ]
                       ELSE same(ErrNoCopies)
                  ELSE same(ErrInvalidItem)
             ELSE same(ErrInvalidMember)
     ELSE LET member_id == new_member_id(mems)
          IN IF title_id \in DOMAIN its
             THEN IF has_copies(its[title_id])
                  THEN LET ci == create_instance(its[title_id], checks)
                           member == [ id |-> member_id,
                                       items |-> MapInsert(EmptyMap, title_id, ci.inst) ]
                       IN IF ci.overflow THEN aborted
                          ELSE [ items |-> [its EXCEPT ![title_id] = ci.item],
                                 members |-> MapInsert(mems, member_id, member),
                                 result |-> OkUnit,
                                 panic |-> FALSE ]
                  ELSE same(ErrNoCopies)
             ELSE same(ErrInvalidItem)

\* `item.avail_copies += 1` of book_return: the increment of a count of
\* 4294967295 panics in a build with overflow checks (the count is as it
\* was) and wraps to 0 in one without
add_copy(item, checks) ==
  [ overflow |-> checks /\ item.avail_copies = -1,
    item |-> IF checks /\ item.avail_copies = -1 THEN item
             ELSE [item EXCEPT !.avail_copies = wrapping_add_one(@)] ]

\* book_return that reads the checkout record (get) instead of removing it
book_return_keeps_record(its, mems, title_id, member_id, checks) ==
  LET same(e) == [items |-> its, members |-> mems, result |-> Err(e), panic |-> FALSE]
  IN IF member_id \in DOMAIN mems
     THEN IF title_id \in DOMAIN mems[member_id].items
          THEN IF title_id \in DOMAIN its
               THEN LET inc == add_copy(its[title_id], checks)
                    IN IF inc.overflow
                       THEN [ items |-> its, members |-> mems,
                              result |-> Err(PanicAdd), panic |-> TRUE ]
                       ELSE [ items |-> [its EXCEPT ![title_id] = inc.item],
                              members |-> mems,
                              result |-> Ok(inc.item), panic |-> FALSE ]
               ELSE same(ErrBookNotFound)
          ELSE same(ErrNotCheckedOut)
     ELSE same(ErrMemberNotFound)

\* book_return that increments the count before it looks for the record
book_return_increments_first(its, mems, title_id, member_id, checks) ==
  LET same(e) == [items |-> its, members |-> mems, result |-> Err(e), panic |-> FALSE]
      inc == add_copy(its[title_id], checks)
      counted == title_id \in DOMAIN its
      its1 == IF counted THEN [its EXCEPT ![title_id] = inc.item] ELSE its
  IN IF member_id \in DOMAIN mems
     THEN IF counted /\ inc.overflow
          THEN [ items |-> its, members |-> mems,
                 result |-> Err(PanicAdd), panic |-> TRUE ]
          ELSE IF title_id \in DOMAIN mems[member_id].items
          THEN LET removed == [mems EXCEPT ![member_id].items = MapRemove(@, title_id)]
               IN IF counted
                  THEN [ items |-> its1, members |-> removed,
                         result |-> Ok(its1[title_id]), panic |-> FALSE ]
                  ELSE [ items |-> its, members |-> removed,
                         result |-> Err(ErrBookNotFound), panic |-> FALSE ]
          ELSE [ items |-> its1, members |-> mems,
                 result |-> Err(ErrNotCheckedOut), panic |-> FALSE ]
     ELSE same(ErrMemberNotFound)

\* book_return that looks the item up before the member
book_return_item_first(its, mems, title_id, member_id, checks) ==
  LET same(e) == [items |-> its, members |-> mems, result |-> Err(e), panic |-> FALSE]
  IN IF title_id \in DOMAIN its
     THEN IF member_id \in DOMAIN mems
          THEN IF title_id \in DOMAIN mems[member_id].items
               THEN LET removed == [mems EXCEPT ![member_id].items = MapRemove(@, title_id)]
                        inc == add_copy(its[title_id], checks)
                    IN IF inc.overflow
                       THEN [ items |-> its, members |-> removed,
                              result |-> Err(PanicAdd), panic |-> TRUE ]
                       ELSE [ items |-> [its EXCEPT ![title_id] = inc.item],
                              members |-> removed,
                              result |-> Ok(inc.item), panic |-> FALSE ]
               ELSE same(ErrNotCheckedOut)
          ELSE same(ErrMemberNotFound)
     ELSE same(ErrBookNotFound)

\* book_return that hands back the item as it was before the increment
book_return_stale_item(its, mems, title_id, member_id, checks) ==
  LET same(e) == [items |-> its, members |-> mems, result |-> Err(e), panic |-> FALSE]
  IN IF member_id \in DOMAIN mems
     THEN IF title_id \in DOMAIN mems[member_id].items
          THEN LET removed == [mems EXCEPT ![member_id].items = MapRemove(@, title_id)]
               IN IF title_id \in DOMAIN its
                  THEN LET inc == add_copy(its[title_id], checks)
                       IN IF inc.overflow
                          THEN [ items |-> its, members |-> removed,
                                 result |-> Err(PanicAdd), panic |-> TRUE ]
                          ELSE [ items |-> [its EXCEPT ![title_id] = inc.item],
                                 members |-> removed,
                                 result |-> Ok(its[title_id]), panic |-> FALSE ]
                  ELSE [ items |-> its, members |-> removed,
                         result |-> Err(ErrBookNotFound), panic |-> FALSE ]
          ELSE same(ErrNotCheckedOut)
     ELSE same(ErrMemberNotFound)

\* book_return that unregisters a member whose last record is returned
book_return_drops_member(its, mems, title_id, member_id, checks) ==
  LET same(e) == [items |-> its, members |-> mems, result |-> Err(e), panic |-> FALSE]
  IN IF member_id \in DOMAIN mems
     THEN IF title_id \in DOMAIN mems[member_id].items
          THEN LET removed == IF DOMAIN mems[member_id].items = {title_id}
                              THEN MapRemove(mems, member_id)
                              ELSE [mems EXCEPT ![member_id].items = MapRemove(@, title_id)]
               IN IF title_id \in DOMAIN its
                  THEN LET inc == add_copy(its[title_id], checks)
                       IN IF inc.overflow
                          THEN [ items |-> its, members |-> removed,
                                 result |-> Err(PanicAdd), panic |-> TRUE ]
                          ELSE [ items |-> [its EXCEPT ![title_id] = inc.item],
                                 members |-> removed,
                                 result |-> Ok(inc.item), panic |-> FALSE ]
                  ELSE [ items |-> its, members |-> removed,
                         result |-> Err(ErrBookNotFound), panic |-> FALSE ]
          ELSE same(ErrNotCheckedOut)
     ELSE same(ErrMemberNotFound)

\* Library::book_return.  The record is removed (line 156) before the count
\* is incremented (line 159): a panic of the increment leaves the record
\* removed and the count as it was (panic |-> TRUE, nothing is returned).
book_return(its, mems, title_id, member_id, checks) ==
  LET same(e) == [items |-> its, members |-> mems, result |-> Err(e), panic |-> FALSE]
  IN IF member_id \in DOMAIN mems
     THEN IF title_id \in DOMAIN mems[member_id].items
          THEN LET removed == [mems EXCEPT ![member_id].items = MapRemove(@, title_id)]
               IN IF title_id \in DOMAIN its
                  THEN LET inc == add_copy(its[title_id], checks)
                       IN IF inc.overflow
                          THEN [ items |-> its, members |-> removed,
                                 result |-> Err(PanicAdd), panic |-> TRUE ]
                          ELSE [ items |-> [its EXCEPT ![title_id] = inc.item],
                                 members |-> removed,
                                 result |-> Ok(inc.item), panic |-> FALSE ]
                  ELSE [ items |-> its, members |-> removed,
                         result |-> Err(ErrBookNotFound), panic |-> FALSE ]
          ELSE same(ErrNotCheckedOut)
     ELSE same(ErrMemberNotFound)

\* ---------------------------------------------------------------- state
VARIABLES
  pc,           \* where connect_activate stands: "start" before the load,
                \* "report" where it prints the outcome of the load,
                \* "running" once the window is shown
  items,        \* Library.items
  members,      \* Library.members
  panicked,     \* the process was aborted by a panic
  load_result,  \* what initialize_lib returned to connect_activate
  loaded,       \* history: Library.items as initialize_lib left it
  created,      \* history: the ids of the members book_issue created, in order
  issued_at,    \* history: for each record held, <<member, item>> |-> the
                \* month in which it was issued
  file,         \* the CSV source, where a specification fixes it beforehand
  reissued,     \* history: some successful issue served a member who already
                \* held a record for the item
  lock,         \* the RwLock around the Library: its writer and its readers
  cb,           \* where each callback stands, when callbacks are processes
  pending,      \* what a mutating callback has computed and not yet written
  overflow_checks
                \* whether the program was built with overflow checks: "on",
                \* "off", or "unobserved" as long as no arithmetic of the run
                \* has overflowed (the two builds run alike up to there)

\* the variables of the callbacks taken as processes
lockVars == <<lock, cb, pending>>

vars ==
  <<pc, items, members, panicked, load_result, loaded, created, issued_at, file,
    reissued, lock, cb, pending, overflow_checks>>

\* the builds the run so far can come from
Builds ==
  IF overflow_checks = "unobserved" THEN BOOLEAN ELSE {overflow_checks = "on"}

\* the builds a call is followed for: those the run can come from where the
\* call overflows (it panics under checks), one where it does not, the two
\* builds running alike there
Deciding(overflows) ==
  IF overflows THEN Builds ELSE {overflow_checks # "off"}

\* the build as a step with an overflow shows it
observed(checks) == IF checks THEN "on" ELSE "off"

\* the callbacks that lock the library: the two that mutate it and the two
\* display refreshes
Writers == {"issue", "return"}

Refreshers == {"refresh_members", "refresh_catalog"}

Callbacks == Writers \cup Refreshers

\* RwLock::new: nobody holds the lock
Unlocked == [writer |-> "none", readers |-> {}]

\* nothing computed
NoPending == [items |-> EmptyMap, members |-> EmptyMap, panic |-> FALSE]

\* no callback is running
LockInit ==
  /\ lock = Unlocked
  /\ cb = [p \in Callbacks |-> "idle"]
  /\ pending = [p \in Writers |-> NoPending]

\* output.csv is not there
NoFile ==
  [opens |-> FALSE, error |-> os_error(2), rows |-> << >>]

\* the errors File::open can give: none when the file opens
open_errors(opens) == IF opens THEN {""} ELSE OpenErrors

\* Library::new, before connect_activate loads the catalog
Init ==
  /\ pc = "start"
  /\ items = EmptyMap
  /\ members = EmptyMap
  /\ panicked = FALSE
  /\ load_result = OkUnit
  /\ loaded = EmptyMap
  /\ created = << >>
  /\ issued_at = EmptyMap
  /\ file = NoFile
  /\ reissued = FALSE
  /\ overflow_checks = "unobserved"
  /\ LockInit

\* the runs of load_library on a source: whether the current directory can
\* be told, and which print fails, if any.  The run in which everything
\* works makes the most prints; a failure is followed at each of them (one
\* at a print that a run does not reach leaves that run whole).
LoadRuns(its, f) ==
  LET whole == load_library(its, f, TRUE, 0)
  IN { load_library(its, f, cwd, fails) :
         cwd \in (IF whole.result[1].ok THEN {TRUE} ELSE BOOLEAN),
         fails \in 1..whole.printed } \cup {whole}

\* connect_activate: the one call of initialize_lib; its error is only
\* printed, and a print that panics aborts the process where it stands.
\* The file does not open, or it opens and holds up to MaxRows rows.
InitializeLib ==
  /\ pc = "start"
  /\ ~panicked
  /\ \E opens \in BOOLEAN, n \in 0..MaxRows :
       /\ opens \/ n = 0
       /\ \E rows \in [1..n -> Rows], e \in open_errors(opens) :
            \E r \in LoadRuns(items, [ opens |-> opens, error |-> e,
                                       rows |-> rows ]) :
              /\ items' = r.items
              /\ loaded' = r.items
              /\ load_result' = IF r.result = << >> THEN load_result
                                ELSE r.result[1]
              /\ panicked' = (r.panic # "")
              /\ pc' = IF r.panic = "" THEN "running"
                       ELSE IF r.result = << >> THEN pc ELSE "report"
  /\ UNCHANGED <<overflow_checks, members, created, issued_at, file,
                 reissued, lockVars>>

\* a call of book_issue (issue page callback, item id already parsed); a
\* panic aborts the process.  The call is followed in a build with overflow
\* checks and, where it overflows there, in one without as well.
BookIssue ==
  /\ pc = "running"
  /\ ~panicked
  /\ \E title_id \in ItemArgs, member_id_text \in Texts :
       \E checked \in {book_issue(items, members, title_id, member_id_text, TRUE)} :
         \E checks \in Deciding(checked.panic) :
           \E r \in { IF checks THEN checked
                      ELSE book_issue(items, members, title_id, member_id_text, FALSE) } :
            LET isNew == DOMAIN r.members # DOMAIN members
                served == IF isNew THEN new_member_id(members)
                          ELSE ParseU32(member_id_text).val[1]
            IN /\ isNew => Cardinality(DOMAIN members) < MaxMembers
               /\ panicked' = r.panic
               /\ overflow_checks' = IF checked.panic THEN observed(checks)
                                     ELSE overflow_checks
               /\ items' = r.items
               /\ members' = r.members
               /\ created' = IF isNew THEN Append(created, served) ELSE created
               /\ issued_at' =
                    IF r.result.ok
                    THEN MapInsert(issued_at, <<served, title_id>>, SessionMonth)
                    ELSE issued_at
               /\ reissued' =
                    \/ reissued
                    \/ /\ r.result.ok
                       /\ ~isNew
                       /\ title_id \in DOMAIN members[served].items
  /\ UNCHANGED <<pc, load_result, loaded, file, lockVars>>

\* a call of book_return (return page callback, both ids already parsed); a
\* panic aborts the process
BookReturn ==
  /\ pc = "running"
  /\ ~panicked
  /\ \E title_id \in ItemArgs, member_id \in MemberArgs :
       \E checked \in {book_return(items, members, title_id, member_id, TRUE)} :
         \E checks \in Deciding(checked.panic) :
           \E r \in { IF checks THEN checked
                      ELSE book_return(items, members, title_id, member_id, FALSE) } :
               /\ panicked' = r.panic
               /\ overflow_checks' = IF checked.panic THEN observed(checks)
                                     ELSE overflow_checks
               /\ items' = r.items
               /\ members' = r.members
               /\ issued_at' = IF r.members # members
                               THEN MapRemove(issued_at, <<member_id, title_id>>)
                               ELSE issued_at
  /\ UNCHANGED <<pc, load_result, loaded, created, file, reissued, lockVars>>

Next == InitializeLib \/ BookIssue \/ BookReturn

Spec == Init /\ [][Next]_vars

\* ---------------------------------------------------------------- the load
\* The load alone, with the CSV source kept in the state: output.csv is
\* missing, or it holds up to MaxRows rows.
InitLoad ==
  /\ pc = "start"
  /\ items = EmptyMap
  /\ members = EmptyMap
  /\ panicked = FALSE
  /\ load_result = OkUnit
  /\ loaded = EmptyMap
  /\ created = << >>
  /\ issued_at = EmptyMap
  /\ reissued = FALSE
  /\ overflow_checks = "unobserved"
  /\ LockInit
  /\ \E opens \in BOOLEAN, n \in 0..MaxRows :
       /\ opens \/ n = 0
       /\ \E rows \in [1..n -> Rows], e \in open_errors(opens) :
            file = [opens |-> opens, error |-> e, rows |-> rows]

\* connect_activate: the call of initialize_lib on that source
LoadFile ==
  /\ pc = "start"
  /\ ~panicked
  /\ \E r \in LoadRuns(items, file) :
       /\ items' = r.items
       /\ loaded' = r.items
       /\ load_result' = IF r.result = << >> THEN load_result ELSE r.result[1]
       /\ panicked' = (r.panic # "")
       /\ pc' = IF r.panic = "" THEN "running"
                ELSE IF r.result = << >> THEN pc ELSE "report"
  /\ UNCHANGED <<overflow_checks, members, created, issued_at, file,
                 reissued, lockVars>>

NextLoad == LoadFile

SpecLoad == InitLoad /\ [][NextLoad]_vars

\* ---------------------------------------------------------------- the lock
\* The callbacks taken as processes: each one is clicked, calls write() or
\* read() on the RwLock, works on the library and drops its guard.
\* book_issue writes in two steps (create_instance decrements the count, then
\* the record is inserted) and so does book_return (the record is removed,
\* then the count is incremented).  The arguments of a call are drawn when it
\* runs.  The main loop of the application (app.run()) calls the callbacks
\* from its one thread: a click is delivered when the callback before it has
\* returned, in any order of the buttons.

\* a guard that is forgotten instead of dropped
unlocked_by_forgotten(l, p) == l

\* the guard of p is dropped
unlocked_by(l, p) ==
  [ writer |-> IF l.writer = p THEN "none" ELSE l.writer,
    readers |-> l.readers \ {p} ]

\* library.write() in the issue and return callbacks, library.read() in the
\* two refresh callbacks
lock_mode(p) == IF p \in Writers THEN "write" ELSE "read"

\* the callbacks that are in write() and do not have the lock yet
writers_waiting == {w \in Writers : cb[w] = "waiting"}

\* RwLock: write() is granted when nobody holds the lock, read() when no
\* writer holds it and none waits for it
can_lock(l, mode, waiting) ==
  IF mode = "write" THEN l.writer = "none" /\ l.readers = {}
  ELSE l.writer = "none" /\ waiting = {}

\* the guard returned by write() or read()
locked_by(l, p, mode) ==
  IF mode = "write" THEN [l EXCEPT !.writer = p]
  ELSE [l EXCEPT !.readers = @ \cup {p}]

\* the sources of the sessions in which the callbacks are followed: two that
\* load, one with no row that deserializes, and no file
LockFiles ==
  { [ opens |-> TRUE, error |-> "",
      rows |-> << [ short |-> FALSE, title |-> "Dune", format |-> <<"b","o","o","k">>,
                    id |-> 1, copies |-> 1, avail_copies |-> 1 ],
                  [ short |-> FALSE, title |-> "Atlas", format |-> <<"m","a","p">>,
                    id |-> 2, copies |-> 1, avail_copies |-> 1 ] >> ],
    [ opens |-> TRUE, error |-> "",
      rows |-> << [ short |-> FALSE, title |-> "Dune", format |-> <<"M","o","v","i","e">>,
                    id |-> 1, copies |-> 2, avail_copies |-> 2 ] >> ],
    [ opens |-> TRUE, error |-> "", rows |-> <<ShortRow>> ],
    NoFile }

\* connect_activate: library.write() for the load
ActivateAcquire ==
  /\ pc = "start"
  /\ ~panicked
  /\ can_lock(lock, "write", writers_waiting)
  /\ lock' = locked_by(lock, "activate", "write")
  /\ pc' = "loading"
  /\ UNCHANGED <<overflow_checks, items, members, panicked, load_result,
                 loaded, created, issued_at, file, reissued, cb, pending>>

\* connect_activate: initialize_lib under the guard and the print of its
\* outcome; a print that panics aborts the process where it stands
ActivateLoad ==
  /\ pc = "loading"
  /\ ~panicked
  /\ \E f \in LockFiles :
       \E r \in LoadRuns(items, f) :
         /\ items' = r.items
         /\ loaded' = r.items
         /\ load_result' = IF r.result = << >> THEN load_result ELSE r.result[1]
         /\ panicked' = (r.panic # "")
         /\ pc' = IF r.panic = "" THEN "loaded"
                  ELSE IF r.result = << >> THEN pc ELSE "report"
  /\ UNCHANGED <<overflow_checks, members, created, issued_at, file,
                 reissued, lockVars>>

\* connect_activate: the guard is dropped at the end of the block; the pages
\* are created after it
ActivateRelease ==
  /\ pc = "loaded"
  /\ lock' = unlocked_by(lock, "activate")
  /\ pc' = "pages"
  /\ UNCHANGED <<overflow_checks, items, members, panicked, load_result,
                 loaded, created, issued_at, file, reissued, cb, pending>>

\* create_catalog_page, "Populate catalog on startup": library.read() for
\* the first refresh_catalog
StartupRefreshAcquire ==
  /\ pc = "pages"
  /\ can_lock(lock, "read", writers_waiting)
  /\ lock' = locked_by(lock, "activate", "read")
  /\ pc' = "populating"
  /\ UNCHANGED <<overflow_checks, items, members, panicked, load_result,
                 loaded, created, issued_at, file, reissued, cb, pending>>

\* refresh_catalog has walked the items: the read guard is dropped at the end
\* of the statement; window.show() follows and the callbacks can run
StartupRefreshRelease ==
  /\ pc = "populating"
  /\ lock' = unlocked_by(lock, "activate")
  /\ pc' = "running"
  /\ UNCHANGED <<overflow_checks, items, members, panicked, load_result,
                 loaded, created, issued_at, file, reissued, cb, pending>>

\* a button is clicked and the main loop calls its callback: no other
\* callback is running
Clicked(p) ==
  /\ pc = "running"
  /\ ~panicked
  /\ \A q \in Callbacks : cb[q] = "idle"
  /\ cb' = [cb EXCEPT ![p] = "waiting"]
  /\ UNCHANGED <<overflow_checks, pc, items, members, panicked, load_result,
                 loaded, created, issued_at, file, reissued, lock, pending>>

\* library.write().unwrap() or library.read().unwrap() returns
Acquire(p) ==
  /\ cb[p] = "waiting"
  /\ ~panicked
  /\ can_lock(lock, lock_mode(p), writers_waiting \ {p})
  /\ lock' = locked_by(lock, p, lock_mode(p))
  /\ cb' = [cb EXCEPT ![p] = "locked"]
  /\ UNCHANGED <<overflow_checks, pc, items, members, panicked, load_result,
                 loaded, created, issued_at, file, reissued, pending>>

\* book_issue up to create_instance: the count is decremented, or the call
\* fails and writes nothing, or the decrement panics and the process is
\* aborted where it stands
IssueDecrement ==
  /\ cb["issue"] = "locked"
  /\ ~panicked
  /\ \E title_id \in ItemArgs, member_id_text \in Texts :
       \E checked \in {book_issue(items, members, title_id, member_id_text, TRUE)} :
         \E checks \in Deciding(checked.panic) :
           \E r \in { IF checks THEN checked
                      ELSE book_issue(items, members, title_id, member_id_text, FALSE) } :
               /\ DOMAIN r.members # DOMAIN members
                    => Cardinality(DOMAIN members) < MaxMembers
               /\ panicked' = r.panic
               /\ overflow_checks' = IF checked.panic THEN observed(checks)
                                     ELSE overflow_checks
               /\ items' = r.items
               /\ pending' = IF r.result.ok
                             THEN [pending EXCEPT !["issue"] =
                                     [items |-> r.items, members |-> r.members,
                                      panic |-> FALSE]]
                             ELSE pending
               /\ cb' = IF r.panic THEN cb
                        ELSE [cb EXCEPT !["issue"] =
                                IF r.result.ok THEN "mid" ELSE "done"]
  /\ UNCHANGED <<pc, members, load_result, loaded, created, issued_at, file,
                 reissued, lock>>

\* book_issue: the record is inserted
IssueInsert ==
  /\ cb["issue"] = "mid"
  /\ ~panicked
  /\ members' = pending["issue"].members
  /\ pending' = [pending EXCEPT !["issue"] = NoPending]
  /\ cb' = [cb EXCEPT !["issue"] = "done"]
  /\ UNCHANGED <<overflow_checks, pc, items, panicked, load_result, loaded,
                 created, issued_at, file, reissued, lock>>

\* book_return up to items.remove: the record is removed, or the call fails
\* and writes nothing
ReturnRemove ==
  /\ cb["return"] = "locked"
  /\ ~panicked
  /\ \E title_id \in ItemArgs, member_id \in MemberArgs :
       \E checked \in {book_return(items, members, title_id, member_id, TRUE)} :
         \E checks \in Deciding(checked.panic) :
           \E q \in { IF checks THEN checked
                      ELSE book_return(items, members, title_id, member_id, FALSE) } :
            LET applies == q.members # members
            IN /\ members' = q.members
               /\ overflow_checks' = IF checked.panic THEN observed(checks)
                                     ELSE overflow_checks
               /\ pending' = IF applies
                             THEN [pending EXCEPT !["return"] =
                                     [items |-> q.items, members |-> q.members,
                                      panic |-> q.panic]]
                             ELSE pending
               /\ cb' = [cb EXCEPT !["return"] = IF applies THEN "mid" ELSE "done"]
  /\ UNCHANGED <<pc, items, panicked, load_result, loaded, created, issued_at,
                 file, reissued, lock>>

\* book_return: the count is incremented, or the increment panics and the
\* process is aborted where it stands
ReturnIncrement ==
  /\ cb["return"] = "mid"
  /\ ~panicked
  /\ items' = pending["return"].items
  /\ panicked' = pending["return"].panic
  /\ pending' = [pending EXCEPT !["return"] = NoPending]
  /\ cb' = IF pending["return"].panic THEN cb
           ELSE [cb EXCEPT !["return"] = "done"]
  /\ UNCHANGED <<overflow_checks, pc, members, load_result, loaded, created,
                 issued_at, file, reissued, lock>>

\* a refresh callback walks the members or the items under its read guard
RefreshRead(p) ==
  /\ p \in Refreshers
  /\ cb[p] = "locked"
  /\ ~panicked
  /\ cb' = [cb EXCEPT ![p] = "done"]
  /\ UNCHANGED <<overflow_checks, pc, items, members, panicked, load_result,
                 loaded, created, issued_at, file, reissued, lock, pending>>

\* the guard goes out of scope and the callback ends
Release(p) ==
  /\ cb[p] = "done"
  /\ ~panicked
  /\ lock' = unlocked_by(lock, p)
  /\ cb' = [cb EXCEPT ![p] = "idle"]
  /\ UNCHANGED <<overflow_checks, pc, items, members, panicked, load_result,
                 loaded, created, issued_at, file, reissued, pending>>

NextLock ==
  \/ ActivateAcquire
  \/ ActivateLoad
  \/ ActivateRelease
  \/ StartupRefreshAcquire
  \/ StartupRefreshRelease
  \/ \E p \in Callbacks : Clicked(p)
  \/ \E p \in Callbacks : Acquire(p)
  \/ IssueDecrement
  \/ IssueInsert
  \/ ReturnRemove
  \/ ReturnIncrement
  \/ \E p \in Refreshers : RefreshRead(p)
  \/ \E p \in Callbacks : Release(p)

\* The thread of the main loop keeps running: connect_activate and a
\* callback that has started go on to their end, and a lock that is free is
\* granted to the call that asks for it.  Nothing obliges a button to be
\* clicked.
FairLock ==
  /\ WF_vars(ActivateAcquire)
  /\ WF_vars(ActivateLoad)
  /\ WF_vars(ActivateRelease)
  /\ WF_vars(StartupRefreshAcquire)
  /\ WF_vars(StartupRefreshRelease)
  /\ WF_vars(IssueDecrement)
  /\ WF_vars(IssueInsert)
  /\ WF_vars(ReturnRemove)
  /\ WF_vars(ReturnIncrement)
  /\ \A p \in Refreshers : WF_vars(RefreshRead(p))
  /\ \A p \in Callbacks : WF_vars(Acquire(p))
  /\ \A p \in Callbacks : WF_vars(Release(p))

SpecLock == Init /\ [][NextLock]_vars /\ FairLock

\* ---------------------------------------------------------------- properties
\* 0 <= avail_copies <= copies for every item of a store
AvailWithinCopies(its) ==
  \A i \in DOMAIN its :
    0 <= its[i].avail_copies /\ its[i].avail_copies <= its[i].copies

\* each selector as book_issue reads it
Parsed == [t \in Texts |-> ParseU32(t)]

\* the selector is the id of a registered member
RegisteredSelector(mems, t) == Parsed[t].ok /\ Parsed[t].val[1] \in DOMAIN mems

\* the selector creates a member (it does not parse as a u32)
NewSelector(t) == ~Parsed[t].ok

\* the member a successful issue with selector t served: the id written in t,
\* or the member that was not registered before
Targets(mems, after, t) ==
  IF Parsed[t].ok THEN {Parsed[t].val[1]} ELSE DOMAIN after \ DOMAIN mems

\* what a call of book_issue can do in the builds the run can come from: the
\* two builds differ only where the call overflows
Issues(its, mems, title_id, member_id_text) ==
  LET checked == book_issue(its, mems, title_id, member_id_text, TRUE)
  IN IF checked.panic
     THEN {book_issue(its, mems, title_id, member_id_text, checks) : checks \in Builds}
     ELSE {checked}

\* what a call of book_return can do in the builds the run can come from
Returns(its, mems, title_id, member_id) ==
  LET checked == book_return(its, mems, title_id, member_id, TRUE)
  IN IF checked.panic
     THEN {book_return(its, mems, title_id, member_id, checks) : checks \in Builds}
     ELSE {checked}

\* C1: if every item of the loaded catalog had 0 <= avail_copies <= copies,
\* then every item has it in every state that book_issue and book_return
\* reach, whatever the arguments and whether the calls succeed or fail.
C1_AvailStaysWithinCopies ==
  (pc = "running" /\ AvailWithinCopies(loaded)) => AvailWithinCopies(items)

\* C1 witness: a sound catalog, a member who borrowed and returned, and an
\* item that is back at its full count
C1_Witness ==
  /\ pc = "running"
  /\ AvailWithinCopies(loaded)
  /\ \E m \in DOMAIN members : members[m].items = EmptyMap
  /\ \E i \in DOMAIN items :
       items[i].copies > 0 /\ items[i].avail_copies = items[i].copies

\* C2: after initialize_lib every item of the store has avail_copies <= copies
\* and both counts non-negative.  (initialize_lib stores the counts of a row
\* as they are written, so a row with avail_copies > copies breaks it.)
C2_LoadedWithinCopies ==
  pc = "running" => AvailWithinCopies(loaded)

\* C3: book_issue of an item with avail_copies = 0, for a registered member id
\* or a new-member selector, returns the no-copies error and changes neither
\* the items nor the members.
C3_NoCopiesIssueFails ==
  pc = "running" =>
    \A i \in ItemArgs, t \in Texts :
      ( /\ i \in DOMAIN items
        /\ items[i].avail_copies = 0
        /\ (NewSelector(t) \/ RegisteredSelector(members, t)) )
      => \A r \in Issues(items, members, i, t) :
           /\ r.result = Err(ErrNoCopies)
           /\ ~r.panic
           /\ r.items = items
           /\ r.members = members

\* C3 witness: an item whose copies have all been issued, with a member
\* registered
C3_Witness ==
  /\ pc = "running"
  /\ \E i \in DOMAIN items : items[i].avail_copies = 0 /\ loaded[i].avail_copies > 0
  /\ \E t \in Texts : RegisteredSelector(members, t)

\* C4: book_issue of an item id that is not in the catalog, for a registered
\* member id or a new-member selector, returns the invalid-item error and
\* changes neither the items nor the members (no member is registered).
C4_AbsentItemIssueFails ==
  pc = "running" =>
    \A i \in ItemArgs, t \in Texts :
      ( /\ i \notin DOMAIN items
        /\ (NewSelector(t) \/ RegisteredSelector(members, t)) )
      => \A r \in Issues(items, members, i, t) :
           /\ r.result = Err(ErrInvalidItem)
           /\ ~r.panic
           /\ r.items = items
           /\ r.members = members

\* C4 witness: a catalog that lacks an id some row could have carried, with a
\* member registered and room for a new one
C4_Witness ==
  /\ pc = "running"
  /\ DOMAIN items # {}
  /\ \E e \in Editions : e.id \notin DOMAIN items
  /\ Cardinality(DOMAIN members) = 1

\* C5: book_return for a registered member who holds no record for the item
\* returns the not-checked-out error and changes neither the items nor the
\* members, also when another member holds a record for that item.
C5_NotCheckedOutReturnFails ==
  pc = "running" =>
    \A i \in ItemArgs, m \in MemberArgs :
      (m \in DOMAIN members /\ i \notin DOMAIN members[m].items)
      => \A r \in Returns(items, members, i, m) :
           /\ r.result = Err(ErrNotCheckedOut)
           /\ r.items = items
           /\ r.members = members

\* C5 witness: one member holds a record for an item, another does not
C5_Witness ==
  /\ pc = "running"
  /\ \E m, n \in DOMAIN members, i \in DOMAIN items :
       /\ m # n
       /\ i \in DOMAIN members[n].items
       /\ i \notin DOMAIN members[m].items

\* C6: book_return for a member id that is not registered returns the
\* member-not-found error whatever the item id (in the catalog or not,
\* checked out by someone or not) and changes nothing.
C6_UnknownMemberReturnFails ==
  pc = "running" =>
    \A i \in ItemArgs, m \in MemberArgs :
      m \notin DOMAIN members
      => \A r \in Returns(items, members, i, m) :
           /\ r.result = Err(ErrMemberNotFound)
           /\ r.items = items
           /\ r.members = members

\* C6 witness: an unregistered id next to a registered member who holds a
\* record, with an item id that is in the catalog and one that is not
C6_Witness ==
  /\ pc = "running"
  /\ \E m \in MemberArgs : m > 0 /\ m \notin DOMAIN members
  /\ \E n \in DOMAIN members : members[n].items # EmptyMap
  /\ \E i, j \in ItemArgs : i \in DOMAIN items /\ j \notin DOMAIN items

\* C7: from every reachable state, when book_issue(i, t) succeeds, the
\* book_return(i, m) that follows for the member m it served succeeds, puts
\* avail_copies of i back to its value before the issue and leaves m without
\* a record for i.
C7_IssueReturnRoundTrip ==
  pc = "running" =>
    \A i \in ItemArgs, t \in Texts :
      \A r \in Issues(items, members, i, t) :
        (r.result.ok /\ ~r.panic) =>
          /\ Targets(members, r.members, t) # {}
          /\ \A m \in Targets(members, r.members, t) :
               \A q \in Returns(r.items, r.members, i, m) :
                 /\ q.result.ok
                 /\ q.items[i].avail_copies = items[i].avail_copies
                 /\ m \in DOMAIN q.members
                 /\ i \notin DOMAIN q.members[m].items

\* C7 witness: a member who borrowed and returned, and an item that is back
\* at its loaded count and can be issued again
C7_Witness ==
  /\ pc = "running"
  /\ \E m \in DOMAIN members : members[m].items = EmptyMap
  /\ \E n \in DOMAIN members : members[n].items # EmptyMap
  /\ \E i \in DOMAIN items :
       items[i].avail_copies > 0 /\ items[i].avail_copies = loaded[i].avail_copies

\* C8: a successful book_issue(i, t) decrements avail_copies of i by exactly
\* one and gives the member it served a record keyed by i with the id and the
\* title of the catalog item; the other items, the other members and the
\* member's records for other items are unchanged.
C8_IssueFrame ==
  pc = "running" =>
    \A i \in ItemArgs, t \in Texts :
      \A r \in Issues(items, members, i, t) :
         (r.result.ok /\ ~r.panic) =>
           /\ i \in DOMAIN items
           /\ DOMAIN r.items = DOMAIN items
           /\ r.items[i] = [items[i] EXCEPT !.avail_copies = items[i].avail_copies - 1]
           /\ \A j \in DOMAIN items \ {i} : r.items[j] = items[j]
           /\ Cardinality(Targets(members, r.members, t)) = 1
           /\ \A m \in Targets(members, r.members, t) :
                /\ DOMAIN r.members = DOMAIN members \cup {m}
                /\ \A n \in DOMAIN members \ {m} : r.members[n] = members[n]
                /\ r.members[m].id = m
                /\ i \in DOMAIN r.members[m].items
                /\ r.members[m].items[i].id = items[i].id
                /\ r.members[m].items[i].id = i
                /\ r.members[m].items[i].title = items[i].title
                /\ LET before == IF m \in DOMAIN members
                                 THEN members[m].items ELSE EmptyMap
                   IN /\ DOMAIN r.members[m].items = DOMAIN before \cup {i}
                      /\ \A j \in DOMAIN before \ {i} :
                           r.members[m].items[j] = before[j]

\* C8 witness: a member holds records for two items with different titles
\* while another member is registered
C8_Witness ==
  /\ pc = "running"
  /\ Cardinality(DOMAIN members) = 2
  /\ \E m \in DOMAIN members :
       /\ DOMAIN members[m].items = {1, 2}
       /\ members[m].items[1].title # members[m].items[2].title

\* C9: a successful book_return(i, m) removes exactly the record of m for i,
\* increments avail_copies of i by exactly one and returns item i with the
\* incremented count; the other items, the other members and the other
\* records of m are unchanged, and m stays registered.
C9_ReturnFrame ==
  pc = "running" =>
    \A i \in ItemArgs, m \in MemberArgs :
      \A q \in Returns(items, members, i, m) :
         q.result.ok =>
           /\ m \in DOMAIN members
           /\ i \in DOMAIN members[m].items
           /\ i \in DOMAIN items
           /\ DOMAIN q.items = DOMAIN items
           /\ q.items[i] = [items[i] EXCEPT !.avail_copies = items[i].avail_copies + 1]
           /\ \A j \in DOMAIN items \ {i} : q.items[j] = items[j]
           /\ q.result.val = <<q.items[i]>>
           /\ DOMAIN q.members = DOMAIN members
           /\ \A n \in DOMAIN members \ {m} : q.members[n] = members[n]
           /\ q.members[m].id = members[m].id
           /\ DOMAIN q.members[m].items = DOMAIN members[m].items \ {i}
           /\ \A j \in DOMAIN q.members[m].items :
                q.members[m].items[j] = members[m].items[j]

\* C9 witness: a member who returned everything is still registered, next to
\* a member who holds two records
C9_Witness ==
  /\ pc = "running"
  /\ \E m, n \in DOMAIN members :
       /\ members[m].items = EmptyMap
       /\ Cardinality(DOMAIN members[n].items) = 2

\* C10: each id that book_issue gives to a member it creates is greater than
\* every id given before and is not the id of a registered member, and the
\* creation leaves every registered member as it was.
C10_NewMemberIdsIncrease ==
  [][ created' # created =>
        LET id == created'[Len(created')]
        IN /\ created' = Append(created, id)
           /\ \A k \in 1..Len(created) : created[k] < id
           /\ id \notin DOMAIN members
           /\ DOMAIN members' = DOMAIN members \cup {id}
           /\ members'[id].id = id
           /\ \A m \in DOMAIN members : members'[m] = members[m] ]_vars

\* C10 witness: two members were created, one of whom has since returned
\* everything
C10_Witness ==
  /\ Len(created) = 2
  /\ \E m \in DOMAIN members : members[m].items = EmptyMap

\* the renewal factor the format of an item stands for: 1 for "book", 2 for
\* "movie", whatever the case of the letters, 0 for anything else
ExpectedFactor(format) ==
  IF format \in {<<"b","o","o","k">>, <<"B","O","O","K">>} THEN 1
  ELSE IF format \in {<<"m","o","v","i","e">>, <<"M","o","v","i","e">>} THEN 2
  ELSE 0

\* C11: every record a successful book_issue created has renewal factor 1 for
\* a "book", 2 for a "movie" (in any case) and 0 otherwise, and its due date
\* is the issuance time advanced by that many months.  (create_instance
\* starts the due date at DateTime::default(), month 0, not at the issuance
\* time, so the due date part fails for every issue made after January 1970.)
C11_DueDateFromIssuance ==
  pc = "running" =>
    \A m \in DOMAIN members :
      \A i \in DOMAIN members[m].items :
        (i \in DOMAIN items /\ <<m, i>> \in DOMAIN issued_at) =>
          /\ members[m].items[i].renew_factor = ExpectedFactor(items[i].format)
          /\ members[m].items[i].due_date =
               issued_at[<<m, i>>] + members[m].items[i].renew_factor

\* a row that supplies every LiItem field: all columns present and both
\* counts unsigned numbers
ValidRow(row) == ~row.short /\ row.copies >= 0 /\ row.avail_copies >= 0

\* the positions of the valid rows of a source
ValidAt(rows) == {k \in 1..Len(rows) : ValidRow(rows[k])}

\* C12: whatever the rows of the source, valid or malformed, the call of
\* initialize_lib skips the malformed rows (every valid row is stored, also
\* one that follows a malformed row), returns an error exactly when no row is
\* valid, and on success leaves a store whose ids are the ids of the valid
\* rows, each mapped to the last valid row that carries it.  (The call ends
\* in a panic, without a result, when one of its prints meets a stream that
\* cannot be written: the two that report a malformed row, and the one that
\* reports the count.)
C12_LoadLastWriteWins ==
  (file.opens /\ (pc # "start" \/ panicked)) =>
    LET v == ValidAt(file.rows)
        returned == pc # "start"
    IN /\ \A k \in v : file.rows[k].id \in DOMAIN items
       /\ (returned /\ ~load_result.ok) <=> (v = {})
       /\ (returned /\ load_result.ok) =>
            /\ DOMAIN items = {file.rows[k].id : k \in v}
            /\ \A i \in DOMAIN items :
                 LET last == CHOOSE k \in v :
                               /\ file.rows[k].id = i
                               /\ \A j \in v : file.rows[j].id = i => j <= k
                 IN /\ items[i].id = i
                    /\ items[i].title = file.rows[last].title
                    /\ items[i].format = file.rows[last].format
                    /\ items[i].copies = file.rows[last].copies
                    /\ items[i].avail_copies = file.rows[last].avail_copies

\* the error texts book_issue and book_return return
IssueErrors == {ErrNoCopies, ErrInvalidItem, ErrInvalidMember}

ReturnErrors == {ErrBookNotFound, ErrNotCheckedOut, ErrMemberNotFound}

Holders(mems, i) == {m \in DOMAIN mems : i \in DOMAIN mems[m].items}

\* the copies of item i that are neither available nor on record: the loaded
\* count less the available count and the outstanding records
Lost(its, mems, i) ==
  loaded[i].avail_copies - its[i].avail_copies - Cardinality(Holders(mems, i))

\* C15: book_issue of item i to a member who already holds a record for i
\* succeeds whenever avail_copies of i is > 0; it decrements avail_copies
\* and leaves the member with the same single record for i, so one more copy
\* is lost; and no call of book_issue or book_return from a reachable state
\* brings a lost copy back.
C15_ReissueLeaksCopy ==
  pc = "running" =>
    /\ \A i \in DOMAIN items, t \in Texts :
         ( /\ RegisteredSelector(members, t)
           /\ i \in DOMAIN members[Parsed[t].val[1]].items
           /\ items[i].avail_copies > 0 )
         => LET m == Parsed[t].val[1]
            IN \A r \in Issues(items, members, i, t) :
                 /\ r.result.ok
                 /\ ~r.panic
                 /\ r.items[i].avail_copies = items[i].avail_copies - 1
                 /\ DOMAIN r.members[m].items = DOMAIN members[m].items
                 /\ Holders(r.members, i) = Holders(members, i)
                 /\ Lost(r.items, r.members, i) = Lost(items, members, i) + 1
    /\ \A j \in ItemArgs, t \in Texts :
         \A r \in Issues(items, members, j, t) :
           r.result.ok =>
             \A i \in DOMAIN items :
               Lost(r.items, r.members, i) >= Lost(items, members, i)
    /\ \A j \in ItemArgs, m \in MemberArgs :
         \A q \in Returns(items, members, j, m) :
           (q.items # items \/ q.members # members) =>
             \A i \in DOMAIN items :
               Lost(q.items, q.members, i) >= Lost(items, members, i)

\* C15 witness: every record for an item has been returned and its count is
\* still below the loaded one
C15_Witness ==
  /\ pc = "running"
  /\ \E i \in DOMAIN items :
       /\ Holders(members, i) = {}
       /\ items[i].avail_copies < loaded[i].avail_copies
       /\ \E m \in DOMAIN members : members[m].items = EmptyMap

\* the selector is a number that names no registered member
UnknownIdSelector(mems, t) == Parsed[t].ok /\ Parsed[t].val[1] \notin DOMAIN mems

\* C16: book_issue registers a member only for a selector that is no unsigned
\* number and only when the issue succeeds; for a number that names no
\* registered member it returns the invalid-member error, whatever the item
\* id and its availability, and changes nothing.
C16_UnknownIdIssueFails ==
  pc = "running" =>
    \A i \in ItemArgs, t \in Texts :
      \A r \in Issues(items, members, i, t) :
         /\ UnknownIdSelector(members, t) =>
              /\ r.result = Err(ErrInvalidMember)
              /\ ~r.panic
              /\ r.items = items
              /\ r.members = members
         /\ DOMAIN r.members # DOMAIN members =>
              /\ NewSelector(t)
              /\ r.result.ok
              /\ Cardinality(DOMAIN r.members \ DOMAIN members) = 1
         /\ (NewSelector(t) /\ r.result.ok) => DOMAIN r.members # DOMAIN members

\* C16 witness: one member is registered, so that "+2" is a number that names
\* none, next to an item with a copy available, an item with none and an id
\* that is not in the catalog
C16_Witness ==
  /\ pc = "running"
  /\ DOMAIN members = {1}
  /\ UnknownIdSelector(members, <<"+","2">>)
  /\ \E i, j \in DOMAIN items :
       items[i].avail_copies > 0 /\ items[j].avail_copies = 0
  /\ \E k \in ItemArgs : k \notin DOMAIN items

\* C17: after the load, every checkout record a member holds is keyed by the
\* id of an item of the catalog and carries that id; so book_return never
\* returns its item-not-found error and never removes a record without
\* incrementing the count of the item.
C17_RecordsNameCatalogItems ==
  pc = "running" =>
    /\ \A m \in DOMAIN members :
         \A k \in DOMAIN members[m].items :
           /\ k \in DOMAIN items
           /\ members[m].items[k].id = k
           /\ members[m].items[k].id = items[k].id
    /\ \A i \in ItemArgs, m \in MemberArgs :
         \A q \in Returns(items, members, i, m) :
           /\ q.result # Err(ErrBookNotFound)
           /\ q.members # members =>
                /\ q.result.ok
                /\ q.items[i].avail_copies = items[i].avail_copies + 1

\* C17 witness: two members hold records for different items, and one id a
\* return can name is not in the catalog
C17_Witness ==
  /\ pc = "running"
  /\ \E m, n \in DOMAIN members :
       /\ m # n
       /\ 1 \in DOMAIN members[m].items
       /\ 2 \in DOMAIN members[n].items
  /\ \E k \in ItemArgs : k \notin DOMAIN items

\* C18: as long as no successful issue has served a member who already held
\* a record for the item, avail_copies of every item plus the number of
\* members holding a record for it equals its loaded avail_copies; in every
\* reachable state the sum is at most the loaded value.
C18_CopiesAccountedFor ==
  pc = "running" =>
    \A i \in DOMAIN items :
      /\ ~reissued =>
           items[i].avail_copies + Cardinality(Holders(members, i))
             = loaded[i].avail_copies
      /\ items[i].avail_copies + Cardinality(Holders(members, i))
           <= loaded[i].avail_copies

\* C18 witness: without any re-issue, two members hold the two loaded copies
\* of an item and the other item is fully available
C18_Witness ==
  /\ pc = "running"
  /\ ~reissued
  /\ \E i, j \in DOMAIN items :
       /\ i # j
       /\ Cardinality(Holders(members, i)) = 2
       /\ items[i].avail_copies = 0
       /\ Holders(members, j) = {}
       /\ items[j].avail_copies > 0

\* the callbacks that hold a guard
Inside == {p \in Callbacks : cb[p] \in {"locked", "mid", "done"}}

\* the lock as the callbacks hold it: a mutating callback inside is the
\* writer and is alone inside, a refresh inside is a reader and no more, and
\* no refresh is inside while an issue or a return is half applied
LockSafe ==
  /\ \A p \in Inside \cap Writers :
       lock.writer = p /\ lock.readers = {} /\ Inside = {p}
  /\ \A p \in Inside \cap Refreshers :
       p \in lock.readers /\ lock.writer = "none"
  /\ \A p \in Inside \cap Refreshers :
       \A w \in Writers : cb[w] # "mid"
  /\ pc \in {"loading", "report", "loaded"} =>
       lock = [writer |-> "activate", readers |-> {}] /\ Inside = {}
  /\ pc = "populating" =>
       lock = [writer |-> "none", readers |-> {"activate"}] /\ Inside = {}

\* a step that writes the library is taken by the holder of the write lock
WrittenUnderWriteLock ==
  (items' # items \/ members' # members) =>
    /\ lock.readers = {}
    /\ \/ lock.writer = "activate" /\ pc = "loading"
       \/ lock.writer \in Writers /\ cb[lock.writer] \in {"locked", "mid"}

\* a callback that has ended holds no guard
GuardsDropped ==
  /\ \A p \in Callbacks :
       cb[p] \in {"idle", "waiting"} => p \notin lock.readers /\ lock.writer # p
  /\ pc \in {"start", "pages", "running"} =>
       "activate" \notin lock.readers /\ lock.writer # "activate"

====
